---- MODULE Spec2Model ----
(***************************************************************************)
(* A model of the edit session of crates/assistant_tools/src/              *)
(* edit_files_tool.rs: EditToolRequest::new drives a stream of response    *)
(* chunks through process_response_chunk and apply_action, then finalize   *)
(* saves the changed buffers, notifies the action log and builds the       *)
(* result.  Texts are sequences of one-character strings.  The session is  *)
(* one sequential async task; each action below is the code between two    *)
(* of its await points.                                                    *)
(***************************************************************************)
EXTENDS Integers, Sequences, FiniteSets, TLC

\* ---------------------------------------------------------------- bounds
\* Number of chunks the stream delivers before it can only end or fail.
MaxChunks == 2
\* Number of blocks (edit actions or malformed blocks) the whole stream
\* carries.
MaxBlocks == 4

\* ------------------------------------------------------------- constants
SUCCESS_OUTPUT_HEADER == "Successfully applied. Here's a list of changes:"
ERROR_OUTPUT_HEADER_NO_EDITS == "I couldn't apply any edits!"
ERROR_OUTPUT_HEADER_WITH_EDITS ==
    "Errors occurred. First, here's a list of the edits we managed to apply:"
NO_CHANGES_MESSAGE ==
    "The instructions didn't lead to any changes. You might need to consult the file contents first."

\* Option: None, Some(x) and the value of a Some.
None == <<>>
Some(x) == <<x>>
Unwrap(opt) == opt[1]

\* The result of a path that is not in the project.
NotFound == "NotFound"

\* ------------------------------------------------------------- the project
\* The buffers (Entity<language::Buffer>) of the project.
Buffers == {"bufA", "bufB"}

\* Their text when the session starts: "a\nb" and " b".
InitialText ==
    [b \in Buffers |-> IF b = "bufA" THEN <<"a", "\n", "b">> ELSE <<" ", "b">>]

\* Project::find_project_path followed by the buffer it names: the paths of
\* the project and the buffer each opens; any other path is not found.
find_project_path(file_path) ==
    CASE file_path = "a.rs" -> "bufA"
      [] file_path = "b.rs" -> "bufB"
      [] OTHER -> NotFound

\* ------------------------------------------------------------ edit actions
\* EditAction::Replace { file_path, old, new } with the source text of its
\* block.
Replace(file_path, old, new, source) ==
    [kind |-> "Replace", file_path |-> file_path, old |-> old, new |-> new,
     content |-> <<>>, source |-> source]

\* EditAction::Write { file_path, content } with the source text of its
\* block.
WriteAction(file_path, content, source) ==
    [kind |-> "Write", file_path |-> file_path, old |-> <<>>, new |-> <<>>,
     content |-> content, source |-> source]

\* A block the parser cannot parse.
Malformed == [kind |-> "Malformed", file_path |-> "", old |-> <<>>,
              new |-> <<>>, content |-> <<>>, source |-> "malformed"]

\* The blocks a response can contain.
ActionPool ==
    { Replace("a.rs", <<"a">>, <<"c">>, "blockA1"),
      Replace("a.rs", <<"c">>, <<"b">>, "blockA2"),
      Replace("b.rs", <<" ", " ", "b">>, <<" ", " ", "c">>, "blockB"),
      WriteAction("b.rs", <<"a">>, "blockW"),
      Replace("missing.rs", <<"a">>, <<"b">>, "blockM") }

Blocks == ActionPool \cup {Malformed}

\* The chunks the stream can deliver: any sequence of at most n blocks.
Chunks(n) == UNION {[1..k -> Blocks] : k \in 0..n}

\* ------------------------------------------------------------------ texts
\* Offsets are 0-based and ranges half-open, as in Rust.
Slice(text, from, to) == SubSeq(text, from + 1, to)

\* The first offset at which pat occurs in text, or -1.
Find(pat, text) ==
    LET hits == {i \in 0..(Len(text) - Len(pat)) :
                    Slice(text, i, i + Len(pat)) = pat}
    IN IF hits = {} THEN -1
       ELSE CHOOSE i \in hits : \A j \in hits : i <= j

\* language::Diff: one edit replacing the range start..end by new_text.
Diff(start, end, new_text) == [start |-> start, end |-> end, new_text |-> new_text]

\* Buffer::apply_diff.
apply_diff(text, diff) ==
    Slice(text, 0, diff.start) \o diff.new_text \o Slice(text, diff.end, Len(text))

\* Buffer::diff(content): the edit that turns the buffer's text into content.
buffer_diff(content, text) == Diff(0, Len(text), content)

\* ---------------------------------------------------------------- matchers
\* replace::replace_exact: the first occurrence of old as a contiguous
\* substring is replaced by new.
replace_exact(old, new, snapshot) ==
    LET at == Find(old, snapshot)
    IN IF at = -1 THEN None ELSE Some(Diff(at, at + Len(old), new))

\* The lines of a text, split at "\n".
RECURSIVE SplitLines(_)
SplitLines(text) ==
    LET at == Find(<<"\n">>, text)
    IN IF at = -1 THEN <<text>>
       ELSE <<Slice(text, 0, at)>> \o SplitLines(Slice(text, at + 1, Len(text)))

\* The lines joined by "\n".
RECURSIVE JoinLines(_)
JoinLines(lines) ==
    IF Len(lines) = 0 THEN <<>>
    ELSE IF Len(lines) = 1 THEN lines[1]
    ELSE lines[1] \o <<"\n">> \o JoinLines(Tail(lines))

\* The length of a line's leading whitespace.
Indent(line) ==
    LET ink == {i \in 1..Len(line) : line[i] # " "}
    IN IF ink = {} THEN Len(line)
       ELSE (CHOOSE i \in ink : \A j \in ink : i <= j) - 1

\* The line without its leading whitespace.
Strip(line) == Slice(line, Indent(line), Len(line))

\* n spaces.
Spaces(n) == [i \in 1..n |-> " "]

\* The offset at which line r (1-based) of lines begins.
RECURSIVE LineStart(_, _)
LineStart(lines, r) ==
    IF r <= 1 THEN 0 ELSE LineStart(lines, r - 1) + Len(lines[r - 1]) + 1

\* replace::replace_with_flexible_indent: the first run of lines of the
\* snapshot equal to old's lines once leading whitespace is stripped; the
\* difference between the indentation found and old's (first line) is
\* applied to every line of new.
replace_with_flexible_indent(old, new, snapshot) ==
    LET old_lines == SplitLines(old)
        new_lines == SplitLines(new)
        doc_lines == SplitLines(snapshot)
        n         == Len(old_lines)
        rows      == {r \in 1..(Len(doc_lines) - n + 1) :
                        \A k \in 1..n :
                            Strip(doc_lines[r + k - 1]) = Strip(old_lines[k])}
    IN IF rows = {} THEN None
       ELSE LET r     == CHOOSE x \in rows : \A y \in rows : x <= y
                delta == Indent(doc_lines[r]) - Indent(old_lines[1])
                Reindent(line) ==
                    LET w == Indent(line) + delta
                    IN Spaces(IF w < 0 THEN 0 ELSE w) \o Strip(line)
                text  == JoinLines([k \in 1..Len(new_lines) |-> Reindent(new_lines[k])])
            IN Some(Diff(LineStart(doc_lines, r),
                         LineStart(doc_lines, r + n - 1) + Len(doc_lines[r + n - 1]),
                         text))

\* DiffResult::BadSearch(BadSearch { file_path, search }).
BadSearch(file_path, search) ==
    [variant |-> "BadSearch", file_path |-> file_path, search |-> search]

\* DiffResult::Diff(diff).
DiffResult(diff) == [variant |-> "Diff", diff |-> diff]

\* The matchers are tried the other way round: flexible indentation first.
replace_diff_flexibleFirst(old, new, file_path, snapshot) ==
    LET flexible == replace_with_flexible_indent(old, new, snapshot)
        result   == IF flexible # None THEN flexible
                    ELSE replace_exact(old, new, snapshot)
    IN IF result = None THEN BadSearch(file_path, old)
       ELSE DiffResult(Unwrap(result))

\* EditToolRequest::replace_diff: exact match first, flexible indentation
\* only when that finds nothing, a BadSearch when both find nothing.
replace_diff(old, new, file_path, snapshot) ==
    LET exact  == replace_exact(old, new, snapshot)
        result == IF exact # None THEN exact
                  ELSE replace_with_flexible_indent(old, new, snapshot)
    IN IF result = None THEN BadSearch(file_path, old)
       ELSE DiffResult(Unwrap(result))

\* ------------------------------------------------------------------ parser
\* EditActionParser::parse_chunk: the (action, source) pairs of the chunk's
\* well-formed blocks, in stream order.
parse_chunk(chunk) == SelectSeq(chunk, LAMBDA blk : blk.kind # "Malformed")

\* The parse errors the chunk adds to EditActionParser::errors().
parse_errors(chunk) ==
    LET bad == SelectSeq(chunk, LAMBDA blk : blk.kind = "Malformed")
    IN [i \in 1..Len(bad) |-> "malformed block"]

\* ----------------------------------------------------------------- output
\* The pieces of the output text, in order.
Header(text) == [tag |-> "header", text |-> text]
Source(text) == [tag |-> "source", text |-> text]

\* String::replace_range(0..SUCCESS_OUTPUT_HEADER.len(), header).
replace_header(output, header) == [output EXCEPT ![1] = Header(header)]

\* Only the first failed search is listed under the heading.
BadSearchSection_firstOnly(bad) ==
    <<[tag |-> "bad_search_count", count |-> Len(bad)],
      [tag |-> "no_exact_match", file_path |-> bad[1].file_path,
       search |-> bad[1].search],
      [tag |-> "must_match_exactly"]>>

\* The "# n SEARCH/REPLACE block(s) failed to match" section.
BadSearchSection(bad) ==
    <<[tag |-> "bad_search_count", count |-> Len(bad)]>>
    \o [i \in 1..Len(bad) |->
          [tag |-> "no_exact_match", file_path |-> bad[i].file_path,
           search |-> bad[i].search]]
    \o <<[tag |-> "must_match_exactly"]>>

\* The "# n SEARCH/REPLACE blocks failed to parse" section.
ParseErrorSection(errs) ==
    <<[tag |-> "parse_error_count", count |-> Len(errs)]>>
    \o [i \in 1..Len(errs) |-> [tag |-> "parse_error", error |-> errs[i]]]

\* The note that the other blocks were applied is written into every error
\* text.
ErrorOutput_alwaysNoted(out, bad, errs, count) ==
    replace_header(out, ERROR_OUTPUT_HEADER_WITH_EDITS)
    \o (IF Len(bad) # 0 THEN BadSearchSection(bad) ELSE <<>>)
    \o (IF Len(errs) # 0 THEN ParseErrorSection(errs) ELSE <<>>)
    \o <<[tag |-> "do_not_resend"]>>
    \o <<[tag |-> "run_again", blank_lines |-> (count = 0)]>>

\* The error text finalize builds when there are parse errors or bad
\* searches.
ErrorOutput(out, bad, errs, count) ==
    LET relabelled ==
            IF Len(out) = 0
            THEN replace_header(out, ERROR_OUTPUT_HEADER_NO_EDITS)
            ELSE replace_header(out, ERROR_OUTPUT_HEADER_WITH_EDITS)
    IN relabelled
       \o (IF Len(bad) # 0 THEN BadSearchSection(bad) ELSE <<>>)
       \o (IF Len(errs) # 0 THEN ParseErrorSection(errs) ELSE <<>>)
       \o (IF count > 0 THEN <<[tag |-> "do_not_resend"]>> ELSE <<>>)
       \o <<[tag |-> "run_again", blank_lines |-> (count = 0)]>>

\* Task<Result<String>>: Ok(text) or Err of some kind with its text.
Pending == [status |-> "Pending", kind |-> "none", text |-> <<>>]
Ok(text) == [status |-> "Ok", kind |-> "success", text |-> text]
Err(kind, text) == [status |-> "Err", kind |-> kind, text |-> text]

\* ------------------------------------------------------------- the request
\* MessageContent: the kinds of item a message holds.
ContentKinds == {"Text", "Image", "ToolUse", "ToolResult"}

\* A sequence without its index-th element (Vec::remove).
Remove(seq, index) ==
    [i \in 1..(Len(seq) - 1) |-> IF i < index THEN seq[i] ELSE seq[i + 1]]

\* A tool result does not end the scan: it is passed over like a text.
RECURSIVE ScanContent_pastResults(_, _)
ScanContent_pastResults(content, index) ==
    IF index = 0 THEN [content |-> content, broke |-> FALSE]
    ELSE IF content[index].kind = "ToolUse"
         THEN [content |-> Remove(content, index), broke |-> TRUE]
         ELSE ScanContent_pastResults(content, index - 1)

\* The inner loop over one message's content, from item `index` backwards:
\* the content it leaves, and whether it broke out of the outer loop.
RECURSIVE ScanContent(_, _)
ScanContent(content, index) ==
    IF index = 0 THEN [content |-> content, broke |-> FALSE]
    ELSE CASE content[index].kind = "ToolUse" ->
                 [content |-> Remove(content, index), broke |-> TRUE]
           [] content[index].kind = "ToolResult" ->
                 [content |-> content, broke |-> TRUE]
           [] content[index].kind \in {"Text", "Image"} ->
                 ScanContent(content, index - 1)

\* The outer loop over the messages, from message m backwards.
RECURSIVE StripLastToolUse(_, _)
StripLastToolUse(msgs, m) ==
    IF m = 0 THEN msgs
    ELSE LET scanned == ScanContent(msgs[m].content, Len(msgs[m].content))
             kept == [msgs EXCEPT ![m].content = scanned.content]
         IN IF scanned.broke THEN kept ELSE StripLastToolUse(kept, m - 1)

\* The user message pushed last: the edit prompt and the edit instructions.
EditMessage ==
    [role |-> "User",
     content |-> <<[kind |-> "Text", id |-> "edit_prompt.md"],
                   [kind |-> "Text", id |-> "edit_instructions"]>>]

\* The messages of the request EditToolRequest::new sends to the editor model.
EditorRequestMessages(msgs) ==
    Append(StripLastToolUse(msgs, Len(msgs)), EditMessage)

\* The conversation of the agent when it runs the tool: the user asked, the
\* assistant answered with some text and this tool use.
Conversation ==
    <<[role |-> "User", content |-> <<[kind |-> "Text", id |-> <<1, 1>>]>>],
      [role |-> "Assistant",
       content |-> <<[kind |-> "Text", id |-> <<2, 1>>],
                     [kind |-> "ToolUse", id |-> <<2, 2>>]>>]>>

\* ------------------------------------------------------------------ state
VARIABLES
    pc,                 \* where the session task is
    buffers,            \* the text of each live buffer
    disk,               \* the text each buffer was last saved with
    save_calls,         \* Project::save_buffer calls issued, per buffer
    chunks_seen,        \* chunks the stream has delivered
    errors,             \* EditActionParser::errors()
    new_actions,        \* the actions of the current chunk not yet applied
    action,             \* the action apply_action is working on
    buffer,             \* the buffer it opened
    snapshot,           \* the text the diff is computed against
    diff_result,        \* the DiffResult of the action
    output,             \* EditToolRequest::output
    changed_buffers,    \* EditToolRequest::changed_buffers
    bad_searches,       \* EditToolRequest::bad_searches
    changed_buffer_count, \* finalize's changed_buffer_count
    save_iter,          \* buffers the save loop has still to visit
    notify_calls,       \* arguments of the ActionLog::buffer_edited calls
    result,             \* what the task returned
    emitted,            \* every action the parser emitted, in order
    processed,          \* every action applied or recorded, in order
    tool_log,           \* whether EditToolLog::try_global found a log
    log_updates,        \* the updates sent to the log, in order
    messages,           \* the messages of the request the tool was run with
    request             \* the messages of the request sent to the editor model

vars == <<pc, buffers, disk, save_calls, chunks_seen, errors, new_actions,
          action, buffer, snapshot, diff_result, output, changed_buffers,
          bad_searches, changed_buffer_count, save_iter, notify_calls,
          result, emitted, processed, tool_log, log_updates, messages,
          request>>

\* What apply_action holds between its await points.
inflight == <<action, buffer, snapshot, diff_result>>
\* The fields of the request that collect outcomes.
collected == <<output, changed_buffers, bad_searches>>
\* What belongs to finalize.
finalizing == <<changed_buffer_count, save_iter, notify_calls>>
\* The documents and their persistence.
documents == <<buffers, disk, save_calls>>
\* The parser and the stream.
streaming == <<chunks_seen, errors, new_actions, emitted>>

\* The audit log of the tool.
audit == <<tool_log, log_updates>>
\* The request to the editor model and what it is built from.
construction == <<messages, request>>

\* ----------------------------------------------------------- the tool log
\* An update of the log, when there is one. Whether the update itself
\* succeeded is logged and dropped (log_err), so `updated` decides nothing.
LogUpdate(entry, updated) ==
    /\ tool_log' = tool_log
    /\ log_updates' = IF tool_log THEN Append(log_updates, entry) ELSE log_updates

\* EditToolLog::new_request, called before the session is created.
NewRequest == [op |-> "new_request"]

\* EditToolLog::push_editor_response_chunk. The chunk and its actions go to
\* the log and are never read back: the update is kept, not its payload.
push_editor_response_chunk(parsed, updated) ==
    LogUpdate([op |-> "push_editor_response_chunk"], updated)

\* EditToolLog::set_tool_output, called by the task that wraps the session.
set_tool_output(res, updated) ==
    LogUpdate([op |-> "set_tool_output", status |-> res.status], updated)

NoSaves == [b \in Buffers |-> 0]

\* The session before EditToolRequest::new runs: nothing is read or changed.
SessionInit ==
    /\ pc = "Initiated"
    /\ buffers = InitialText
    /\ disk = InitialText
    /\ save_calls = NoSaves
    /\ chunks_seen = 0
    /\ errors = <<>>
    /\ new_actions = <<>>
    /\ action = None
    /\ buffer = None
    /\ snapshot = None
    /\ diff_result = None
    /\ output = <<>>
    /\ changed_buffers = {}
    /\ bad_searches = <<>>
    /\ changed_buffer_count = 0
    /\ save_iter = {}
    /\ notify_calls = <<>>
    /\ result = Pending
    /\ emitted = <<>>
    /\ processed = <<>>

\* The tool is run from the agent's conversation and no EditToolLog is
\* installed (the log is a debugging aid that is absent unless set up).
Init ==
    /\ SessionInit
    /\ tool_log = FALSE
    /\ log_updates = <<>>
    /\ messages = Conversation
    /\ request = None

\* The tool is run with or without an EditToolLog; when there is one, run
\* has registered the request with it.
LoggedInit ==
    /\ SessionInit
    /\ tool_log \in BOOLEAN
    /\ log_updates = IF tool_log THEN <<NewRequest>> ELSE <<>>
    /\ messages = Conversation
    /\ request = None

\* The task returns Err(kind); the wrapping task reports it to the log and
\* returns it as it is.
Fail(kind, text) ==
    /\ pc' = "Failed"
    /\ result' = Err(kind, text)
    /\ \E updated \in BOOLEAN : set_tool_output(Err(kind, text), updated)

\* ------------------------------------------------- EditToolRequest::new
\* No editor model is configured.
NoEditorModel ==
    /\ pc = "Initiated"
    /\ Fail("no_editor_model", <<>>)
    /\ UNCHANGED <<documents, streaming, inflight, collected, finalizing, processed>>
    /\ UNCHANGED construction

\* stream_completion_text fails.
StreamRequestFails ==
    /\ pc = "Initiated"
    /\ request' = Some(EditorRequestMessages(messages))
    /\ Fail("stream", <<>>)
    /\ UNCHANGED <<documents, streaming, inflight, collected, finalizing, processed>>
    /\ UNCHANGED messages

\* The request is created with an empty output (String::new()).
StartStreaming_emptyOutput ==
    /\ pc = "Initiated"
    /\ request' = Some(EditorRequestMessages(messages))
    /\ pc' = "Streaming"
    /\ output' = <<>>
    /\ changed_buffers' = {}
    /\ bad_searches' = <<>>
    /\ UNCHANGED <<documents, streaming, inflight, finalizing, result, processed>>
    /\ UNCHANGED <<audit, messages>>

\* The request to the editor model is built from the messages, the stream
\* opens and the request is created, its output holding the success header.
StartStreaming ==
    /\ pc = "Initiated"
    /\ request' = Some(EditorRequestMessages(messages))
    /\ pc' = "Streaming"
    /\ output' = <<Header(SUCCESS_OUTPUT_HEADER)>>
    /\ changed_buffers' = {}
    /\ bad_searches' = <<>>
    /\ UNCHANGED <<documents, streaming, inflight, finalizing, result, processed>>
    /\ UNCHANGED <<audit, messages>>

\* The stream yields an error chunk.
StreamError ==
    /\ pc = "Streaming"
    /\ Fail("stream", <<>>)
    /\ UNCHANGED <<documents, streaming, inflight, collected, finalizing, processed>>
    /\ UNCHANGED construction

\* A failed update of the log is propagated with `?` and ends the session.
ProcessResponseChunk_logFatal ==
    /\ pc = "Streaming"
    /\ chunks_seen < MaxChunks
    /\ \E chunk \in Chunks(MaxBlocks - (Len(emitted) + Len(errors))), updated \in BOOLEAN :
          IF tool_log /\ ~updated
          THEN /\ Fail("log_update", <<>>)
               /\ UNCHANGED <<streaming, construction>>
          ELSE /\ new_actions' = parse_chunk(chunk)
               /\ errors' = errors \o parse_errors(chunk)
               /\ emitted' = emitted \o parse_chunk(chunk)
               /\ push_editor_response_chunk(parse_chunk(chunk), updated)
               /\ chunks_seen' = chunks_seen + 1
               /\ pc' = "ForAction"
               /\ UNCHANGED <<result, construction>>
    /\ UNCHANGED <<documents, inflight, collected, finalizing, processed>>

\* ----------------------------- EditToolRequest::process_response_chunk
\* The stream yields a chunk; the parser turns it into actions.
ProcessResponseChunk ==
    /\ pc = "Streaming"
    /\ chunks_seen < MaxChunks
    /\ \E chunk \in Chunks(MaxBlocks - (Len(emitted) + Len(errors))) :
          /\ new_actions' = parse_chunk(chunk)
          /\ errors' = errors \o parse_errors(chunk)
          /\ emitted' = emitted \o parse_chunk(chunk)
          /\ \E updated \in BOOLEAN :
                push_editor_response_chunk(parse_chunk(chunk), updated)
    /\ chunks_seen' = chunks_seen + 1
    /\ pc' = "ForAction"
    /\ UNCHANGED <<documents, inflight, collected, finalizing, result, processed>>
    /\ UNCHANGED construction

\* The changed buffers are saved at the end of every chunk.
ChunkDone_saving ==
    /\ pc = "ForAction"
    /\ new_actions = <<>>
    /\ pc' = "Streaming"
    /\ save_calls' = [b \in Buffers |->
                        IF b \in changed_buffers THEN save_calls[b] + 1
                        ELSE save_calls[b]]
    /\ disk' = [b \in Buffers |->
                  IF b \in changed_buffers THEN buffers[b] ELSE disk[b]]
    /\ UNCHANGED <<buffers, streaming, inflight, collected, finalizing,
                   result, processed>>
    /\ UNCHANGED <<audit, construction>>

\* Every action of the chunk is done: back to the stream.
ChunkDone ==
    /\ pc = "ForAction"
    /\ new_actions = <<>>
    /\ pc' = "Streaming"
    /\ UNCHANGED <<documents, streaming, inflight, collected, finalizing,
                   result, processed>>
    /\ UNCHANGED <<audit, construction>>

\* ------------------------------------------ EditToolRequest::apply_action
\* A snapshot taken from the saved text instead of the live buffer.
SnapshotOf_saved(b) == disk[b]

\* The text of a buffer that a snapshot or a diff is taken from.
SnapshotOf(b) == buffers[b]

\* The next action of the chunk is taken up and its path resolves.
ResolvePath ==
    /\ pc = "ForAction"
    /\ new_actions # <<>>
    /\ find_project_path(Head(new_actions).file_path) # NotFound
    /\ action' = Some(Head(new_actions))
    /\ new_actions' = Tail(new_actions)
    /\ pc' = "OpenBuffer"
    /\ UNCHANGED <<documents, chunks_seen, errors, emitted, buffer, snapshot,
                   diff_result, collected, finalizing, result, processed>>
    /\ UNCHANGED <<audit, construction>>

\* A path that is not in the project makes apply_action skip the action and
\* go on with the next one.
PathNotFound_skipped ==
    /\ pc = "ForAction"
    /\ new_actions # <<>>
    /\ find_project_path(Head(new_actions).file_path) = NotFound
    /\ new_actions' = Tail(new_actions)
    /\ UNCHANGED <<pc, documents, chunks_seen, errors, emitted, inflight,
                   collected, finalizing, result, processed>>
    /\ UNCHANGED <<audit, construction>>

\* The next action of the chunk is taken up and its path is not in the
\* project: "Path not found in project".
PathNotFound ==
    /\ pc = "ForAction"
    /\ new_actions # <<>>
    /\ find_project_path(Head(new_actions).file_path) = NotFound
    /\ action' = Some(Head(new_actions))
    /\ new_actions' = Tail(new_actions)
    /\ Fail("path_not_found", <<>>)
    /\ UNCHANGED <<documents, chunks_seen, errors, emitted, buffer, snapshot,
                   diff_result, collected, finalizing, processed>>
    /\ UNCHANGED construction

\* open_buffer returns the buffer; its text is read for the diff.
OpenBuffer ==
    /\ pc = "OpenBuffer"
    /\ LET b == find_project_path(Unwrap(action).file_path)
       IN /\ buffer' = Some(b)
          /\ snapshot' = Some(SnapshotOf(b))
    /\ pc' = IF Unwrap(action).kind = "Replace" THEN "ReplaceDiff" ELSE "WriteDiff"
    /\ UNCHANGED <<documents, streaming, action, diff_result, collected,
                   finalizing, result, processed>>
    /\ UNCHANGED <<audit, construction>>

\* open_buffer fails.
OpenBufferFails ==
    /\ pc = "OpenBuffer"
    /\ Fail("open_buffer", <<>>)
    /\ UNCHANGED <<documents, streaming, inflight, collected, finalizing, processed>>
    /\ UNCHANGED construction

\* EditAction::Replace: replace_diff runs on the background executor.
ComputeReplaceDiff ==
    /\ pc = "ReplaceDiff"
    /\ LET a == Unwrap(action)
       IN diff_result' = Some(replace_diff(a.old, a.new, a.file_path, Unwrap(snapshot)))
    /\ pc' = "MatchResult"
    /\ UNCHANGED <<documents, streaming, action, buffer, snapshot, collected,
                   finalizing, result, processed>>
    /\ UNCHANGED <<audit, construction>>

\* A Write whose content the buffer already holds is turned down as a search
\* that found nothing to change.
ComputeWriteDiff_unlessSame ==
    /\ pc = "WriteDiff"
    /\ LET a == Unwrap(action)
       IN diff_result' =
             IF Unwrap(snapshot) = a.content
             THEN Some(BadSearch(a.file_path, a.content))
             ELSE Some(DiffResult(buffer_diff(a.content, Unwrap(snapshot))))
    /\ pc' = "MatchResult"
    /\ UNCHANGED <<documents, streaming, action, buffer, snapshot, collected,
                   finalizing, result, processed>>
    /\ UNCHANGED <<audit, construction>>

\* EditAction::Write: the buffer's diff against the content.
ComputeWriteDiff ==
    /\ pc = "WriteDiff"
    /\ diff_result' = Some(DiffResult(buffer_diff(Unwrap(action).content, Unwrap(snapshot))))
    /\ pc' = "MatchResult"
    /\ UNCHANGED <<documents, streaming, action, buffer, snapshot, collected,
                   finalizing, result, processed>>
    /\ UNCHANGED <<audit, construction>>

\* The entry of processed for the action in flight.
Outcome == [action |-> Unwrap(action), buffer |-> Unwrap(buffer),
            result |-> Unwrap(diff_result)]

\* The buffer of a failed search joins changed_buffers.
RecordBadSearch_touching ==
    /\ pc = "MatchResult"
    /\ Unwrap(diff_result).variant = "BadSearch"
    /\ bad_searches' = Append(bad_searches, Unwrap(diff_result))
    /\ changed_buffers' = changed_buffers \cup {Unwrap(buffer)}
    /\ processed' = Append(processed, Outcome)
    /\ action' = None /\ buffer' = None /\ snapshot' = None /\ diff_result' = None
    /\ pc' = "ForAction"
    /\ UNCHANGED <<documents, streaming, output, finalizing, result>>
    /\ UNCHANGED <<audit, construction>>

\* A failed search is returned as an error of apply_action: the session ends.
RecordBadSearch_aborting ==
    /\ pc = "MatchResult"
    /\ Unwrap(diff_result).variant = "BadSearch"
    /\ bad_searches' = Append(bad_searches, Unwrap(diff_result))
    /\ processed' = Append(processed, Outcome)
    /\ Fail("bad_search", <<>>)
    /\ UNCHANGED <<documents, streaming, inflight, output, changed_buffers,
                   finalizing>>
    /\ UNCHANGED construction

\* DiffResult::BadSearch: the failed search is recorded.
RecordBadSearch ==
    /\ pc = "MatchResult"
    /\ Unwrap(diff_result).variant = "BadSearch"
    /\ bad_searches' = Append(bad_searches, Unwrap(diff_result))
    /\ processed' = Append(processed, Outcome)
    /\ action' = None /\ buffer' = None /\ snapshot' = None /\ diff_result' = None
    /\ pc' = "ForAction"
    /\ UNCHANGED <<documents, streaming, output, changed_buffers, finalizing, result>>
    /\ UNCHANGED <<audit, construction>>

\* The buffer is saved as soon as a diff is applied to it.
ApplyDiff_saving ==
    /\ pc = "MatchResult"
    /\ Unwrap(diff_result).variant = "Diff"
    /\ LET b == Unwrap(buffer)
           text == apply_diff(buffers[b], Unwrap(diff_result).diff)
       IN /\ buffers' = [buffers EXCEPT ![b] = text]
          /\ disk' = [disk EXCEPT ![b] = text]
          /\ save_calls' = [save_calls EXCEPT ![b] = @ + 1]
          /\ changed_buffers' = changed_buffers \cup {b}
    /\ output' = Append(output, Source(Unwrap(action).source))
    /\ processed' = Append(processed, Outcome)
    /\ action' = None /\ buffer' = None /\ snapshot' = None /\ diff_result' = None
    /\ pc' = "ForAction"
    /\ UNCHANGED <<streaming, bad_searches, finalizing, result>>
    /\ UNCHANGED <<audit, construction>>

\* The source of an action is written only when its buffer is touched for
\* the first time.
ApplyDiff_oncePerBuffer ==
    /\ pc = "MatchResult"
    /\ Unwrap(diff_result).variant = "Diff"
    /\ LET b == Unwrap(buffer)
       IN /\ buffers' = [buffers EXCEPT ![b] = apply_diff(@, Unwrap(diff_result).diff)]
          /\ changed_buffers' = changed_buffers \cup {b}
          /\ output' = IF b \in changed_buffers THEN output
                       ELSE Append(output, Source(Unwrap(action).source))
    /\ processed' = Append(processed, Outcome)
    /\ action' = None /\ buffer' = None /\ snapshot' = None /\ diff_result' = None
    /\ pc' = "ForAction"
    /\ UNCHANGED <<disk, save_calls, streaming, bad_searches, finalizing, result>>
    /\ UNCHANGED <<audit, construction>>

\* DiffResult::Diff: the diff is applied to the buffer, the source of the
\* action is written to the output and the buffer joins changed_buffers.
ApplyDiff ==
    /\ pc = "MatchResult"
    /\ Unwrap(diff_result).variant = "Diff"
    /\ LET b == Unwrap(buffer)
       IN /\ buffers' = [buffers EXCEPT ![b] = apply_diff(@, Unwrap(diff_result).diff)]
          /\ changed_buffers' = changed_buffers \cup {b}
    /\ output' = Append(output, Source(Unwrap(action).source))
    /\ processed' = Append(processed, Outcome)
    /\ action' = None /\ buffer' = None /\ snapshot' = None /\ diff_result' = None
    /\ pc' = "ForAction"
    /\ UNCHANGED <<disk, save_calls, streaming, bad_searches, finalizing, result>>
    /\ UNCHANGED <<audit, construction>>

\* ---------------------------------------------- EditToolRequest::finalize
\* A stream that changed nothing and left no error returns the no-changes
\* error at once; any other goes to finalize.
StreamEnd_shortcut ==
    /\ pc = "Streaming"
    /\ IF changed_buffers = {} /\ Len(errors) = 0 /\ Len(bad_searches) = 0
       THEN /\ Fail("no_changes", <<[tag |-> "header", text |-> NO_CHANGES_MESSAGE]>>)
            /\ UNCHANGED <<changed_buffer_count, save_iter>>
       ELSE /\ changed_buffer_count' = Cardinality(changed_buffers)
            /\ save_iter' = changed_buffers
            /\ pc' = "Saving"
            /\ UNCHANGED <<result, audit>>
    /\ UNCHANGED <<documents, streaming, inflight, collected, notify_calls,
                   processed>>
    /\ UNCHANGED construction

\* The stream ends: finalize starts its save loop over changed_buffers.
StreamEnd ==
    /\ pc = "Streaming"
    /\ changed_buffer_count' = Cardinality(changed_buffers)
    /\ save_iter' = changed_buffers
    /\ pc' = "Saving"
    /\ UNCHANGED <<documents, streaming, inflight, collected, notify_calls,
                   result, processed>>
    /\ UNCHANGED <<audit, construction>>

\* The next buffer of the loop is saved.
SaveBuffer ==
    /\ pc = "Saving"
    /\ \E b \in save_iter :
          /\ save_calls' = [save_calls EXCEPT ![b] = @ + 1]
          /\ disk' = [disk EXCEPT ![b] = buffers[b]]
          /\ save_iter' = save_iter \ {b}
    /\ UNCHANGED <<pc, buffers, streaming, inflight, collected,
                   changed_buffer_count, notify_calls, result, processed>>
    /\ UNCHANGED <<audit, construction>>

\* A failed save is logged and the loop goes on with the next buffer.
SaveBufferFails_logged ==
    /\ pc = "Saving"
    /\ \E b \in save_iter :
          /\ save_calls' = [save_calls EXCEPT ![b] = @ + 1]
          /\ save_iter' = save_iter \ {b}
    /\ UNCHANGED <<pc, buffers, disk, streaming, inflight, collected,
                   changed_buffer_count, notify_calls, result, processed>>
    /\ UNCHANGED <<audit, construction>>

\* Saving the next buffer of the loop fails: finalize returns the error.
SaveBufferFails ==
    /\ pc = "Saving"
    /\ \E b \in save_iter :
          /\ save_calls' = [save_calls EXCEPT ![b] = @ + 1]
          /\ save_iter' = save_iter \ {b}
    /\ Fail("save", <<>>)
    /\ UNCHANGED <<buffers, disk, streaming, inflight, collected,
                   changed_buffer_count, notify_calls, processed>>
    /\ UNCHANGED construction

\* The action log is told of every changed buffer in a call of its own.
RECURSIVE OneCallEach(_)
OneCallEach(bufs) ==
    IF bufs = {} THEN <<>>
    ELSE LET b == CHOOSE x \in bufs : TRUE
         IN <<{b}>> \o OneCallEach(bufs \ {b})

BufferEdited_each ==
    /\ pc = "Saving"
    /\ save_iter = {}
    /\ notify_calls' = notify_calls \o OneCallEach(changed_buffers)
    /\ pc' = "Decide"
    /\ UNCHANGED <<documents, streaming, inflight, collected,
                   changed_buffer_count, save_iter, result, processed>>
    /\ UNCHANGED <<audit, construction>>

\* The loop is over: the action log is told which buffers were edited.
BufferEdited ==
    /\ pc = "Saving"
    /\ save_iter = {}
    /\ notify_calls' = Append(notify_calls, changed_buffers)
    /\ pc' = "Decide"
    /\ UNCHANGED <<documents, streaming, inflight, collected,
                   changed_buffer_count, save_iter, result, processed>>
    /\ UNCHANGED <<audit, construction>>

\* Success is decided on the parse errors alone.
Succeed_despiteBadSearches ==
    /\ pc = "Decide"
    /\ Len(errors) = 0
    /\ changed_buffer_count # 0
    /\ pc' = "Succeeded"
    /\ result' = Ok(output)
    /\ \E updated \in BOOLEAN : set_tool_output(Ok(output), updated)
    /\ UNCHANGED <<documents, streaming, inflight, collected, finalizing, processed>>
    /\ UNCHANGED construction

\* No parse error, no bad search, some buffer changed: Ok(output).
Succeed ==
    /\ pc = "Decide"
    /\ Len(errors) = 0 /\ Len(bad_searches) = 0
    /\ changed_buffer_count # 0
    /\ pc' = "Succeeded"
    /\ result' = Ok(output)
    /\ \E updated \in BOOLEAN : set_tool_output(Ok(output), updated)
    /\ UNCHANGED <<documents, streaming, inflight, collected, finalizing, processed>>
    /\ UNCHANGED construction

\* A session that changed nothing returns its output as a success.
NoChanges_asSuccess ==
    /\ pc = "Decide"
    /\ Len(errors) = 0 /\ Len(bad_searches) = 0
    /\ changed_buffer_count = 0
    /\ pc' = "Succeeded"
    /\ result' = Ok(output)
    /\ \E updated \in BOOLEAN : set_tool_output(Ok(output), updated)
    /\ UNCHANGED <<documents, streaming, inflight, collected, finalizing, processed>>
    /\ UNCHANGED construction

\* No parse error, no bad search, no buffer changed.
NoChanges ==
    /\ pc = "Decide"
    /\ Len(errors) = 0 /\ Len(bad_searches) = 0
    /\ changed_buffer_count = 0
    /\ Fail("no_changes", <<Header(NO_CHANGES_MESSAGE)>>)
    /\ UNCHANGED <<documents, streaming, inflight, collected, finalizing, processed>>
    /\ UNCHANGED construction

\* Parse errors or bad searches: Err(the error text).
ReportErrors ==
    /\ pc = "Decide"
    /\ ~(Len(errors) = 0 /\ Len(bad_searches) = 0)
    /\ Fail("errors", ErrorOutput(output, bad_searches, errors, changed_buffer_count))
    /\ UNCHANGED <<documents, streaming, inflight, collected, finalizing, processed>>
    /\ UNCHANGED construction

\* ---------------------------------------------------------- specification
Next ==
    \/ NoEditorModel
    \/ StreamRequestFails
    \/ StartStreaming
    \/ StreamError
    \/ ProcessResponseChunk
    \/ ChunkDone
    \/ ResolvePath
    \/ PathNotFound
    \/ OpenBuffer
    \/ OpenBufferFails
    \/ ComputeReplaceDiff
    \/ ComputeWriteDiff
    \/ RecordBadSearch
    \/ ApplyDiff
    \/ StreamEnd
    \/ SaveBuffer
    \/ SaveBufferFails
    \/ BufferEdited
    \/ Succeed
    \/ NoChanges
    \/ ReportErrors

Spec == Init /\ [][Next]_vars

\* The session task's fairness: the executor runs it until it returns, and
\* the stream and the collaborators answer.
FairSpec == Spec /\ WF_vars(Next)

\* The same session, run with or without the tool log.
LoggedSpec == LoggedInit /\ [][Next]_vars

\* ------------------------------------------------- one Replace, any texts
\* The longest text of a document or of a search.
MaxTextLen == 3

\* The characters of the texts: a letter, a space, a line break.
Alphabet == {"a", " ", "\n"}

\* Every text of at most n characters.
Texts(n) == UNION {[1..k -> Alphabet] : k \in 0..n}

\* What a search is replaced by: one line, or one indented line.
Replacements == {<<"b">>, <<" ", "b">>}

\* A session that has taken up, as the only action of its first chunk, a
\* Replace of any search text in a document of any text, and opened the
\* document.
MatchInit ==
    \E old \in Texts(MaxTextLen) \ {<<>>}, text \in Texts(MaxTextLen),
       new \in Replacements :
        LET a == Replace("a.rs", old, new, "block")
        IN /\ pc = "ReplaceDiff"
           /\ buffers = [InitialText EXCEPT !["bufA"] = text]
           /\ disk = [InitialText EXCEPT !["bufA"] = text]
           /\ save_calls = NoSaves
           /\ chunks_seen = 1
           /\ errors = <<>>
           /\ new_actions = <<>>
           /\ action = Some(a)
           /\ buffer = Some("bufA")
           /\ snapshot = Some(text)
           /\ diff_result = None
           /\ output = <<Header(SUCCESS_OUTPUT_HEADER)>>
           /\ changed_buffers = {}
           /\ bad_searches = <<>>
           /\ changed_buffer_count = 0
           /\ save_iter = {}
           /\ notify_calls = <<>>
           /\ result = Pending
           /\ emitted = <<a>>
           /\ processed = <<>>
           /\ tool_log = FALSE
           /\ log_updates = <<>>
           /\ messages = Conversation
           /\ request = Some(EditorRequestMessages(Conversation))

\* apply_action from the snapshot to the end of its match on the result.
MatchNext ==
    \/ ComputeReplaceDiff
    \/ RecordBadSearch
    \/ ApplyDiff

MatchSpec == MatchInit /\ [][MatchNext]_vars

\* ------------------------------------------- the request, any conversation
\* The most messages of a conversation, and the most items of all of them
\* together.
MaxMessages == 2
MaxItems == 3

\* The conversation of k messages that holds items of the given kinds, in
\* this order, the i-th in message owner[i]. Every item is told from every
\* other by its place.
ConversationOf(k, kinds, owner) ==
    LET items == [i \in 1..Len(kinds) |-> [kind |-> kinds[i], id |-> i]]
    IN [m \in 1..k |->
          [role |-> IF m % 2 = 1 THEN "User" ELSE "Assistant",
           content |-> SelectSeq(items, LAMBDA item : owner[item.id] = m)]]

\* The tool is run from any conversation within the bounds.
RequestInit ==
    /\ SessionInit
    /\ tool_log = FALSE
    /\ log_updates = <<>>
    /\ \E k \in 0..MaxMessages, t \in 0..MaxItems :
          \E kinds \in [1..t -> ContentKinds], owner \in [1..t -> 1..k] :
              /\ \A i, j \in 1..t : i <= j => owner[i] <= owner[j]
              /\ messages = ConversationOf(k, kinds, owner)
    /\ request = None

\* EditToolRequest::new up to the answer of stream_completion_text.
RequestNext ==
    \/ NoEditorModel
    \/ StreamRequestFails
    \/ StartStreaming

RequestSpec == RequestInit /\ [][RequestNext]_vars

\* ------------------------------------------------------ session states
\* The state of the session state machine a position belongs to.
Phase ==
    CASE pc = "Initiated" -> "Initiated"
      [] pc \in {"Streaming", "ForAction", "OpenBuffer", "ReplaceDiff",
                 "WriteDiff", "MatchResult"} -> "Streaming"
      [] pc \in {"Saving", "Decide"} -> "Finalizing"
      [] pc = "Succeeded" -> "Succeeded"
      [] pc = "Failed" -> "Failed"

TypeOK ==
    /\ pc \in {"Initiated", "Streaming", "ForAction", "OpenBuffer", "ReplaceDiff",
               "WriteDiff", "MatchResult", "Saving", "Decide", "Succeeded", "Failed"}
    /\ changed_buffers \subseteq Buffers
    /\ save_iter \subseteq Buffers
    /\ chunks_seen \in 0..MaxChunks
    /\ result.status \in {"Pending", "Ok", "Err"}

\* --------------------------------------------------------------- histories
\* The session is over.
Done == pc \in {"Succeeded", "Failed"}

\* The stream ended and finalize was entered (it may have returned since).
FinalizeEntered ==
    \/ pc \in {"Saving", "Decide", "Succeeded"}
    \/ pc = "Failed" /\ result.kind \in {"save", "no_changes", "errors"}

\* finalize reached the point where it decides the outcome.
OutcomeDecided ==
    \/ pc = "Succeeded"
    \/ pc = "Failed" /\ result.kind \in {"no_changes", "errors"}

\* The session was aborted before finalize: by the stream or by apply_action.
Aborted ==
    pc = "Failed" /\ result.kind \in {"stream", "path_not_found", "open_buffer"}

\* The diffs applied to buffer b so far.
Applied(b) ==
    Cardinality({i \in 1..Len(processed) :
                    processed[i].buffer = b /\ processed[i].result.variant = "Diff"})

\* The buffers a diff was applied to.
Touched == {b \in Buffers : Applied(b) > 0}

\* The source texts of the actions whose diff was applied, in order.
AppliedSources ==
    LET done == SelectSeq(processed, LAMBDA e : e.result.variant = "Diff")
    IN [i \in 1..Len(done) |-> done[i].action.source]

\* What an action does to the text of its buffer when processed on it.
Effect(a, text) ==
    IF a.kind = "Write" THEN a.content
    ELSE LET r == replace_diff(a.old, a.new, a.file_path, text)
         IN IF r.variant = "Diff" THEN apply_diff(text, r.diff) ELSE text

\* The text buffer b has once the first n emitted actions were processed in
\* order, each on the text its predecessors left.
RECURSIVE TextAfter(_, _)
TextAfter(b, n) ==
    IF n = 0 THEN InitialText[b]
    ELSE IF find_project_path(emitted[n].file_path) = b
         THEN Effect(emitted[n], TextAfter(b, n - 1))
         ELSE TextAfter(b, n - 1)

\* Whether the n-th emitted action matches on the text its predecessors left.
MatchesInOrder(n) ==
    LET a == emitted[n]
    IN \/ a.kind = "Write"
       \/ replace_diff(a.old, a.new, a.file_path,
                       TextAfter(find_project_path(a.file_path), n - 1)).variant = "Diff"

\* -------------------------------------------------------------- the claims

\* C1: actions are applied strictly in the order the parser emitted them,
\* one at a time: the processed actions are a prefix of the emitted ones, the
\* action in flight is the next emitted one and the rest of its chunk waits
\* behind it; every buffer holds the text left by the diffs of all processed
\* actions, the snapshot an action is matched against is that text, and each
\* processed action matched or failed as it does on that text.
C1_AppliedInParseOrder ==
    /\ Len(processed) + Len(action) + Len(new_actions) = Len(emitted)
    /\ \A i \in 1..Len(processed) : processed[i].action = emitted[i]
    /\ action # None => Unwrap(action) = emitted[Len(processed) + 1]
    /\ \A i \in 1..Len(new_actions) :
          new_actions[i] = emitted[Len(processed) + Len(action) + i]
    /\ \A b \in Buffers : buffers[b] = TextAfter(b, Len(processed))
    /\ snapshot # None =>
          Unwrap(snapshot) = TextAfter(Unwrap(buffer), Len(processed))
    /\ \A i \in 1..Len(processed) :
          (processed[i].result.variant = "Diff") <=> MatchesInOrder(i)

\* Witness of C1: a Replace was applied whose search text is not in the
\* initial text of its file, only in the text an earlier Replace of the
\* session left there.
C1_Witness ==
    \E i, j \in 1..Len(processed) :
        /\ i < j
        /\ processed[i].buffer = processed[j].buffer
        /\ processed[i].result.variant = "Diff"
        /\ processed[j].result.variant = "Diff"
        /\ processed[j].action.kind = "Replace"
        /\ replace_diff(processed[j].action.old, processed[j].action.new,
                        processed[j].action.file_path,
                        InitialText[processed[j].buffer]).variant = "BadSearch"

\* The save calls finalize owes: one for each buffer a diff was applied to.
SavedOncePerTouched ==
    \A b \in Buffers : save_calls[b] = IF Applied(b) > 0 THEN 1 ELSE 0

\* C2 as stated: when finalize has returned, every buffer a diff was applied
\* to has had exactly one save call and every other buffer none.
C2_SavedExactlyOnce == (Done /\ FinalizeEntered) => SavedOncePerTouched

\* C2, amended: a buffer never gets more than one save call, however many
\* diffs were applied to it, and none when no diff was applied to it; when
\* no save fails (the save loop runs to its end), every buffer a diff was
\* applied to has had exactly one.
C2_SavedOnceUnlessSaveFails ==
    /\ \A b \in Buffers :
          /\ save_calls[b] <= 1
          /\ Applied(b) = 0 => save_calls[b] = 0
    /\ (pc = "Decide" \/ OutcomeDecided) => SavedOncePerTouched

\* Witness of C2: finalize ran to its end on a buffer two diffs were applied
\* to, and saved it once.
C2_Witness ==
    /\ OutcomeDecided
    /\ \E b \in Buffers : Applied(b) >= 2 /\ save_calls[b] = 1

\* The pieces of a text that carry a given tag.
Tagged(text, tag) == SelectSeq(text, LAMBDA piece : piece.tag = tag)

\* The text carries the transcript: the sources of the applied actions, in
\* order.
CarriesTranscript(text) ==
    LET sources == Tagged(text, "source")
    IN [i \in 1..Len(sources) |-> sources[i].text] = AppliedSources

\* The text carries the diagnostics: every bad search, in order, and every
\* parse error.
CarriesDiagnostics(text) ==
    LET bad  == Tagged(text, "no_exact_match")
        errs == Tagged(text, "parse_error")
    IN /\ [i \in 1..Len(bad) |-> [file_path |-> bad[i].file_path, search |-> bad[i].search]]
          = [i \in 1..Len(bad_searches) |->
                [file_path |-> bad_searches[i].file_path, search |-> bad_searches[i].search]]
       /\ [i \in 1..Len(errs) |-> errs[i].error] = errors

\* There is a parse error or a bad search.
HasErrors == Len(errors) > 0 \/ Len(bad_searches) > 0

\* The result is a success only with no parse error, no bad search and a
\* buffer changed.
SuccessOnlyIfClean ==
    result.status = "Ok" =>
        /\ FinalizeEntered
        /\ ~HasErrors
        /\ Touched # {}

\* C3 as stated: success only with no parse error, no bad search and a
\* buffer changed; and whenever finalize finds a parse error or a bad search,
\* the result is a failure carrying the transcript and the diagnostics.
C3_FailureCarriesReport ==
    /\ SuccessOnlyIfClean
    /\ (Done /\ FinalizeEntered /\ HasErrors) =>
          /\ result.status = "Err"
          /\ CarriesTranscript(result.text)
          /\ CarriesDiagnostics(result.text)

\* C3, amended: success only with no parse error, no bad search and a buffer
\* changed; whenever finalize finds a parse error or a bad search the result
\* is a failure, and unless saving a buffer failed that failure carries the
\* transcript and the diagnostics.
C3_NoSilentPartialSuccess ==
    /\ SuccessOnlyIfClean
    /\ (Done /\ FinalizeEntered /\ HasErrors) =>
          /\ result.status = "Err"
          /\ result.kind # "save" =>
                /\ result.kind = "errors"
                /\ CarriesTranscript(result.text)
                /\ CarriesDiagnostics(result.text)

\* Witness of C3: a failure with a bad search, a parse error and an applied
\* edit.
C3_Witness ==
    /\ pc = "Failed" /\ result.kind = "errors"
    /\ Len(bad_searches) > 0 /\ Len(errors) > 0
    /\ Touched # {}

\* C4: a session whose stream ended normally with no buffer changed, no
\* parse error and no bad search (so one that produced no action at all)
\* fails with the no-changes message, and is never a success.
C4_NoOpFails ==
    /\ (Done /\ FinalizeEntered /\ ~HasErrors /\ changed_buffers = {}) =>
          result = Err("no_changes", <<Header(NO_CHANGES_MESSAGE)>>)
    /\ (FinalizeEntered /\ ~HasErrors /\ Len(emitted) = 0) =>
          /\ changed_buffers = {}
          /\ result.status # "Ok"
          /\ pc = "Decide" => ENABLED NoChanges

\* Witness of C4: a stream of chunks without any block ended in the
\* no-changes failure.
C4_Witness ==
    /\ pc = "Failed" /\ result.kind = "no_changes"
    /\ chunks_seen > 0 /\ Len(emitted) = 0 /\ Len(errors) = 0

\* C5: a failure with parse errors or bad searches begins with
\* ERROR_OUTPUT_HEADER_NO_EDITS when no diff was applied in the session and
\* with ERROR_OUTPUT_HEADER_WITH_EDITS when at least one was.
C5_FailureHeader ==
    (pc = "Failed" /\ result.kind = "errors") =>
        result.text[1] = Header(IF Touched = {} THEN ERROR_OUTPUT_HEADER_NO_EDITS
                                ELSE ERROR_OUTPUT_HEADER_WITH_EDITS)

\* The transitions of Initiated -> Streaming -> Finalizing -> {Succeeded,
\* Failed}.
ThroughFinalizing ==
    {<<"Initiated", "Streaming">>, <<"Streaming", "Finalizing">>,
     <<"Finalizing", "Succeeded">>, <<"Finalizing", "Failed">>}

\* C6 as stated: every change of state is one of Initiated -> Streaming ->
\* Finalizing -> {Succeeded, Failed}; none skips Finalizing.
C6_NoTransitionSkipsFinalizing ==
    [][Phase' # Phase => <<Phase, Phase'>> \in ThroughFinalizing]_vars

\* C6, amended: every change of state is one of Initiated -> Streaming ->
\* Finalizing -> {Succeeded, Failed}, except that a fatal error (no editor
\* model, a stream error, a path that does not resolve, a buffer that cannot
\* be opened) takes Initiated or Streaming straight to Failed; Succeeded, and
\* the no-changes failure, are reached from Finalizing only.
C6_OnlyFatalErrorsSkipFinalizing ==
    [][Phase' # Phase =>
          \/ <<Phase, Phase'>> \in ThroughFinalizing
          \/ /\ Phase \in {"Initiated", "Streaming"}
             /\ Phase' = "Failed"
             /\ result'.kind \in {"no_editor_model", "stream", "path_not_found",
                                  "open_buffer"}]_vars

\* Witness of C6: a stream that produced nothing is in finalize, past the
\* (empty) save loop, about to take the no-changes path.
C6_Witness ==
    /\ pc = "Decide"
    /\ chunks_seen > 0 /\ Len(emitted) = 0 /\ Len(errors) = 0
    /\ save_calls = NoSaves

\* The actions whose processing has begun.
Started == Len(emitted) - Len(new_actions)

\* C7: a session aborted by a stream error, a path that does not resolve or a
\* buffer that cannot be opened has saved nothing and notified nothing, and
\* the diffs applied before remain in the buffers, unsaved; an action whose
\* path does not resolve aborts the session the moment it is taken up, and
\* nothing moves once the session has failed: no later action is applied.
C7_AbortWithoutFinalizing ==
    /\ [](Aborted =>
            /\ result.status = "Err"
            /\ save_calls = NoSaves
            /\ notify_calls = <<>>
            /\ disk = InitialText
            /\ \A b \in Buffers : buffers[b] = TextAfter(b, Len(processed)))
    /\ [](\A i \in 1..Started :
            find_project_path(emitted[i].file_path) = NotFound =>
                /\ i = Started
                /\ pc = "Failed" /\ result.kind = "path_not_found"
                /\ Len(processed) = i - 1)
    /\ [][pc # "Failed"]_vars

\* Witness of C7: a session aborted by a path that does not resolve, with an
\* applied diff that is not saved and a later action of the chunk left.
C7_Witness ==
    /\ pc = "Failed" /\ result.kind = "path_not_found"
    /\ \E b \in Buffers : Applied(b) > 0 /\ buffers[b] # disk[b]
    /\ new_actions # <<>>

\* C8: changed_buffers holds only buffers a diff was applied to in this
\* session, and so does the save loop.
C8_TouchedOnlyIfApplied ==
    /\ changed_buffers \subseteq Touched
    /\ save_iter \subseteq Touched

\* Witness of C8: a search failed on a buffer and a diff was applied to
\* another; only the other is in changed_buffers.
C8_Witness ==
    /\ changed_buffers # {}
    /\ \E i \in 1..Len(processed) :
          /\ processed[i].result.variant = "BadSearch"
          /\ processed[i].buffer \notin changed_buffers

\* C9: no save call is issued before the stream has ended and every emitted
\* action is applied or recorded, and once a save call was issued no buffer
\* is edited and no action processed.
C9_SaveAfterAllEdits ==
    /\ [](save_calls # NoSaves =>
            /\ FinalizeEntered
            /\ new_actions = <<>> /\ action = None
            /\ Len(processed) = Len(emitted))
    /\ [][save_calls # NoSaves =>
            /\ buffers' = buffers
            /\ processed' = processed]_vars

\* Witness of C9: a buffer is saved after the diffs of two chunks.
C9_Witness ==
    /\ \E b \in Buffers : save_calls[b] > 0
    /\ chunks_seen >= 2 /\ Len(processed) >= 2 /\ Touched # {}

\* C10 as stated, for the sessions that entered finalize: when finalize has
\* returned, ActionLog::buffer_edited was called exactly once, with the set
\* of the buffers a diff was applied to.
C10_NotifiedOncePerSession ==
    (Done /\ FinalizeEntered) =>
        /\ Len(notify_calls) = 1
        /\ notify_calls[1] = Touched

\* C10, amended: buffer_edited is called at most once in a session, and
\* exactly once when finalize saved every changed buffer without an error:
\* with the set of the buffers a diff was applied to, after their saves and
\* before the outcome is decided.  A session aborted before finalize, or
\* whose save failed, never calls it.
C10_NotifiedOnceAfterSaves ==
    /\ Len(notify_calls) <= 1
    /\ Len(notify_calls) = 1 <=> (pc = "Decide" \/ OutcomeDecided)
    /\ Len(notify_calls) = 1 =>
          /\ notify_calls[1] = Touched
          /\ \A b \in Touched : save_calls[b] = 1 /\ disk[b] = buffers[b]
    /\ pc = "Decide" => result = Pending

\* Witness of C10: the action log was told of two changed buffers in one
\* call, and the outcome is not decided yet.
C10_Witness ==
    /\ pc = "Decide"
    /\ Len(notify_calls) = 1
    /\ Cardinality(notify_calls[1]) = 2

\* The text a session holds for its applied actions: the success header, then
\* the source of every applied action, each after a blank line, in the order
\* the diffs were applied.
Transcript ==
    <<Header(SUCCESS_OUTPUT_HEADER)>>
    \o [i \in 1..Len(AppliedSources) |-> Source(AppliedSources[i])]

\* The session runs, or ran into finalize: its request was created.
RequestLive == pc \notin {"Initiated", "Failed"} \/ FinalizeEntered

\* The actions that ended in a match failure.
MatchFailures == SelectSeq(processed, LAMBDA e : e.result.variant = "BadSearch")

\* C11: on success the returned text is the success header followed, in
\* application order, by the source text of every action whose diff was
\* applied, each preceded by a blank line; no action of a successful session
\* ended in a match failure, and at no point of a session does the output
\* hold a piece for an action that did.
C11_SuccessTextIsTranscript ==
    /\ RequestLive => output = Transcript
    /\ result.status = "Ok" =>
          /\ result.text = Transcript
          /\ MatchFailures = <<>>
          /\ Len(result.text) = 1 + Len(processed)

\* A successful session that applied two different blocks, one after the other.
C11_Witness ==
    /\ pc = "Succeeded"
    /\ AppliedSources = <<"blockA1", "blockA2">>

\* The pieces of a text from the first piece tagged `heading` on, without it.
Under(text, heading) ==
    LET at == CHOOSE i \in 1..Len(text) : text[i].tag = heading
    IN SubSeq(text, at + 1, Len(text))

\* The text lists every match failure of the session, in the order they
\* occurred, each with the file path and the search text of its action, under
\* one heading that states how many there are.
ListsMatchFailures(text) ==
    LET n == Len(MatchFailures)
        headings == Tagged(text, "bad_search_count")
    IN IF n = 0 THEN headings = <<>> /\ Tagged(text, "no_exact_match") = <<>>
       ELSE /\ headings = <<[tag |-> "bad_search_count", count |-> n]>>
            /\ Len(Tagged(text, "no_exact_match")) = n
            /\ \A i \in 1..n :
                  Under(text, "bad_search_count")[i] =
                      [tag |-> "no_exact_match",
                       file_path |-> MatchFailures[i].action.file_path,
                       search |-> MatchFailures[i].action.old]

\* The text lists every parse error under one heading that states how many
\* there are.
ListsParseErrors(text) ==
    LET n == Len(errors)
        headings == Tagged(text, "parse_error_count")
    IN IF n = 0 THEN headings = <<>> /\ Tagged(text, "parse_error") = <<>>
       ELSE /\ headings = <<[tag |-> "parse_error_count", count |-> n]>>
            /\ Len(Tagged(text, "parse_error")) = n
            /\ \A i \in 1..n :
                  Under(text, "parse_error_count")[i] =
                      [tag |-> "parse_error", error |-> errors[i]]

\* The failure message holds the whole account of the session.
Aggregated(text) ==
    /\ CarriesTranscript(text)
    /\ ListsMatchFailures(text)
    /\ ListsParseErrors(text)

\* C12 as stated: whenever a session finalizes with errors, the failure
\* message holds the source of every applied block, every match failure in
\* order with its file path and search text under a heading with their count,
\* and every parse error under a heading with their count.
C12_ErrorsAlwaysAggregated ==
    (Done /\ FinalizeEntered /\ HasErrors) =>
        /\ result.status = "Err"
        /\ Aggregated(result.text)

\* C12, amended: the same, for every session that finalizes with errors and
\* whose saves all succeeded; none of the match failures and parse errors of
\* the session is dropped from the message.
C12_ErrorsAggregated ==
    (Done /\ FinalizeEntered /\ HasErrors /\ result.kind # "save") =>
        /\ result.status = "Err"
        /\ result.kind = "errors"
        /\ Aggregated(result.text)
        /\ Len(MatchFailures) = Len(bad_searches)

\* Witness of C12: a failure message for a session with two match failures
\* on different search texts, an applied block between them and a parse error.
C12_Witness ==
    /\ pc = "Failed" /\ result.kind = "errors"
    /\ Len(MatchFailures) = 2
    /\ MatchFailures[1].action.old # MatchFailures[2].action.old
    /\ Len(AppliedSources) = 1
    /\ Len(errors) = 1

\* ------------------------------------------- what a session is a function of
\* A session is given the actions and parse errors of the stream and the
\* answers of its collaborators (which of them failed shows in the kind of
\* its result). The definitions below compute what the session does from
\* those alone: none of them reads tool_log or log_updates.

\* The outcome of the i-th emitted action on the text its predecessors left.
Replayed(i) ==
    LET a == emitted[i]
        b == find_project_path(a.file_path)
        text == TextAfter(b, i - 1)
    IN [action |-> a, buffer |-> b,
        result |-> IF a.kind = "Write" THEN DiffResult(buffer_diff(a.content, text))
                   ELSE replace_diff(a.old, a.new, a.file_path, text)]

\* The failed searches of the session, from its history.
FailedSearches == [i \in 1..Len(MatchFailures) |-> MatchFailures[i].result]

\* The errors a collaborator answers with.
CollaboratorErrors ==
    {"no_editor_model", "stream", "path_not_found", "open_buffer", "save"}

\* The result the task returns.
ExpectedResult ==
    CASE pc = "Succeeded" -> Ok(Transcript)
      [] pc = "Failed" /\ result.kind \in CollaboratorErrors -> Err(result.kind, <<>>)
      [] pc = "Failed" /\ result.kind = "no_changes" ->
            Err("no_changes", <<Header(NO_CHANGES_MESSAGE)>>)
      [] pc = "Failed" /\ result.kind = "errors" ->
            Err("errors", ErrorOutput(Transcript, FailedSearches, errors,
                                      Cardinality(Touched)))
      [] OTHER -> Pending

\* The updates a log has received, when there is one.
ExpectedLog ==
    <<NewRequest>>
    \o [i \in 1..chunks_seen |-> [op |-> "push_editor_response_chunk"]]
    \o (IF Done THEN <<[op |-> "set_tool_output", status |-> result.status]>>
        ELSE <<>>)

\* C13: with the tool log present or absent, a session given the same stream
\* and the same collaborator answers applies the same diffs in the same order
\* (every processed action is the replay of the emitted one, every buffer
\* holds the replayed text), saves the same documents and returns the same
\* result: all of it is a function of the stream and the collaborators alone.
\* The outcome is decided by the errors and the touched documents only, no
\* result comes from the log, and the log is the only thing that tells a
\* session with a log from one without.
C13_LogDoesNotInterfere ==
    /\ \A i \in 1..Len(processed) : processed[i] = Replayed(i)
    /\ \A b \in Buffers : buffers[b] = TextAfter(b, Len(processed))
    /\ \A b \in Buffers :
          /\ save_calls[b] <= (IF b \in Touched /\ FinalizeEntered THEN 1 ELSE 0)
          /\ disk[b] \in {InitialText[b], buffers[b]}
          /\ save_calls[b] = 0 => disk[b] = InitialText[b]
    /\ OutcomeDecided =>
          /\ SavedOncePerTouched
          /\ \A b \in Touched : disk[b] = buffers[b]
          /\ pc = "Succeeded" <=> (~HasErrors /\ Touched # {})
          /\ result.kind = "no_changes" <=> (~HasErrors /\ Touched = {})
    /\ result = ExpectedResult
    /\ log_updates = IF tool_log THEN ExpectedLog ELSE <<>>

\* Witness of C13: a session with a tool log took two chunks, applied a
\* block and succeeded, the log having been sent every update.
C13_Witness ==
    /\ tool_log
    /\ pc = "Succeeded"
    /\ chunks_seen = 2
    /\ Len(AppliedSources) >= 1
    /\ Len(log_updates) = 4

\* The last element of a non-empty sequence.
Last(seq) == seq[Len(seq)]

\* C14: a Write whose document was obtained always yields a diff, whatever the
\* document holds: no Write is among the match failures (which are as many as
\* the recorded bad searches), the diff of a Write in flight is never a bad
\* search, and once a Write is the last action processed its document holds
\* exactly the action's content, is in the touched set, and the action's
\* source is the last piece of the output.
C14_WriteAlwaysApplies ==
    /\ \A i \in 1..Len(processed) :
          processed[i].action.kind = "Write" => processed[i].result.variant = "Diff"
    /\ Len(bad_searches) = Len(MatchFailures)
    /\ (pc = "MatchResult" /\ Unwrap(action).kind = "Write") =>
          /\ Unwrap(diff_result).variant = "Diff"
          /\ apply_diff(buffers[Unwrap(buffer)], Unwrap(diff_result).diff)
                = Unwrap(action).content
    /\ (Len(processed) > 0 /\ Last(processed).action.kind = "Write") =>
          /\ buffers[Last(processed).buffer] = Last(processed).action.content
          /\ Last(processed).buffer \in changed_buffers
          /\ Last(output) = Source(Last(processed).action.source)

\* Witness of C14: a Write was applied to a document whose text differed
\* from its content, and then once more to the same document, which by then
\* held that very content.
C14_Witness ==
    /\ Len(processed) = 2
    /\ processed[1].action.kind = "Write"
    /\ processed[2].action = processed[1].action
    /\ InitialText[processed[1].buffer] # processed[1].action.content
    /\ Tagged(output, "source") = <<Source("blockW"), Source("blockW")>>

\* What replace_diff owes for a search in a text: the exact matcher's diff
\* when it finds one, else the flexible-indent matcher's when that finds one,
\* else the bad search with the file path and the search text.
MatchersInOrder(a, text, r) ==
    LET exact    == replace_exact(a.old, a.new, text)
        flexible == replace_with_flexible_indent(a.old, a.new, text)
    IN /\ exact # None => r = DiffResult(Unwrap(exact))
       /\ (exact = None /\ flexible # None) => r = DiffResult(Unwrap(flexible))
       /\ (r.variant = "BadSearch") <=> (exact = None /\ flexible = None)
       /\ (r.variant = "BadSearch") =>
             /\ r.file_path = a.file_path
             /\ r.search = a.old

\* C15: for a Replace the exact matcher's diff is the one used whenever it
\* exists, the flexible-indent matcher's only when the exact one found
\* nothing, and a match failure results if and only if both found nothing;
\* it carries the action's file path and, as search text, the action's old
\* text, and so does the entry recorded for it. (The first action of a
\* session is matched on the text its document was last saved with.)
C15_ExactThenFlexible ==
    /\ (pc = "MatchResult" /\ Unwrap(action).kind = "Replace") =>
          MatchersInOrder(Unwrap(action), Unwrap(snapshot), Unwrap(diff_result))
    /\ \A i \in 1..Len(processed) :
          processed[i].action.kind = "Replace" =>
              /\ processed[i].result.variant = "BadSearch" =>
                    /\ processed[i].result =
                          BadSearch(processed[i].action.file_path, processed[i].action.old)
                    /\ processed[i].result \in {bad_searches[k] : k \in 1..Len(bad_searches)}
              /\ (Len(processed) = 1 /\ Len(emitted) = 1) =>
                    MatchersInOrder(processed[1].action, disk[processed[1].buffer],
                                    processed[1].result)

\* Witness of C15: both matchers find the search, with different diffs, and
\* the diff of the exact one is the result.
C15_Witness ==
    /\ pc = "MatchResult"
    /\ LET a == Unwrap(action)
           exact == replace_exact(a.old, a.new, Unwrap(snapshot))
           flexible == replace_with_flexible_indent(a.old, a.new, Unwrap(snapshot))
       IN /\ exact # None /\ flexible # None
          /\ Unwrap(exact) # Unwrap(flexible)
          /\ Unwrap(diff_result) = DiffResult(Unwrap(exact))

\* The step that settles a Replace that matched nowhere: one entry more in
\* the list of bad searches, for the action in flight; the documents, the
\* output and the touched set as they were; the rest of the chunk still
\* waiting, and the session back in its loop over the actions.
BadSearchOnlyRecorded ==
    /\ bad_searches' = Append(bad_searches,
                              BadSearch(Unwrap(action).file_path, Unwrap(action).old))
    /\ Unwrap(action).kind = "Replace"
    /\ UNCHANGED <<buffers, disk, save_calls, output, changed_buffers>>
    /\ UNCHANGED <<new_actions, emitted, errors, result>>
    /\ pc' = "ForAction"

\* C16: a Replace that matches nowhere is recorded and nothing else: the step
\* that settles it appends exactly one entry to the bad searches and leaves
\* every document, the output and the touched set unchanged, and the bad
\* searches change in no other step. It does not stop the session: no result
\* comes from a bad search, a session no collaborator failed has processed
\* every action of its stream when finalize decides, and a session that has
\* not returned can always take its next step, with bad searches or without.
C16_MatchFailureOnlyRecorded ==
    /\ [][(pc = "MatchResult" /\ Unwrap(diff_result).variant = "BadSearch")
             => BadSearchOnlyRecorded]_vars
    /\ [][bad_searches' # bad_searches =>
             (pc = "MatchResult" /\ Unwrap(diff_result).variant = "BadSearch")]_vars
    /\ [](result.kind \in CollaboratorErrors \cup {"none", "success", "no_changes", "errors"})
    /\ []((pc = "Decide" \/ OutcomeDecided) =>
             (Len(processed) = Len(emitted) /\ Len(MatchFailures) = Len(bad_searches)))
    /\ [](Done \/ ENABLED Next)

\* Witness of C16: finalize was entered by a session in which a Replace
\* matched nowhere and a later action of the stream was applied.
C16_Witness ==
    /\ FinalizeEntered
    /\ \E i, j \in 1..Len(processed) :
          /\ i < j
          /\ processed[i].result.variant = "BadSearch"
          /\ processed[j].result.variant = "Diff"
    /\ buffers # InitialText

\* The buffers a save was called for and that were not written.
SaveFailed == {b \in Buffers : save_calls[b] > 0 /\ disk[b] # buffers[b]}

\* C17: a failing save ends finalize at once. A buffer that a save was called
\* for and that was not written means the session has failed with the save
\* error; a session that failed with the save error carries that error alone
\* (no transcript, no diagnostics, no success), has not notified the action
\* log, has made no save call for the buffers the loop had not reached and
\* not more than one failing call; and nothing happens after the failure.
C17_SaveErrorIsFatal ==
    /\ [](SaveFailed # {} => (pc = "Failed" /\ result.kind = "save"))
    /\ [](result.kind = "save" =>
             /\ pc = "Failed"
             /\ result = Err("save", <<>>)
             /\ notify_calls = <<>>
             /\ Cardinality(SaveFailed) <= 1
             /\ \A b \in save_iter :
                   /\ b \in changed_buffers
                   /\ save_calls[b] = 0
                   /\ disk[b] = InitialText[b])
    /\ [][pc # "Failed"]_vars

\* Witness of C17: the first save of a session with two touched buffers and
\* a bad search failed; the other buffer was never saved and nothing was
\* reported.
C17_Witness ==
    /\ result.kind = "save"
    /\ Cardinality(changed_buffers) = 2
    /\ Cardinality(save_iter) = 1
    /\ SaveFailed # {}
    /\ HasErrors

\* C18: in a failure message built by finalize, the note "The other
\* SEARCH/REPLACE blocks were applied successfully. Do not re-send them!"
\* appears (once) if and only if at least one diff was applied in the
\* session, and the message always ends with the one instruction that the
\* tool can be run again to fix the errors, which comes right after the note
\* when there is one.
C18_DoNotResendIffTouched ==
    (pc = "Failed" /\ result.kind = "errors") =>
        LET text == result.text
            notes == Tagged(text, "do_not_resend")
        IN /\ (notes # <<>>) <=> (Touched # {})
           /\ (notes # <<>>) <=> (\E i \in 1..Len(processed) :
                                     processed[i].result.variant = "Diff")
           /\ Len(notes) <= 1
           /\ Last(text).tag = "run_again"
           /\ Len(Tagged(text, "run_again")) = 1
           /\ notes # <<>> => text[Len(text) - 1].tag = "do_not_resend"

\* Witness of C18: two failure messages are possible, one of a session that
\* applied a block and carries the note, one of a session that applied
\* nothing and does not; this is the first, with a parse error after the
\* applied block.
C18_Witness ==
    /\ pc = "Failed" /\ result.kind = "errors"
    /\ Touched # {}
    /\ Len(errors) > 0
    /\ Tagged(result.text, "do_not_resend") # <<>>
    /\ Last(result.text).tag = "run_again"

\* The places of the tool uses and tool results of a conversation.
ToolItems(msgs) ==
    {<<m, i>> \in (1..Len(msgs)) \X (1..MaxItems) :
        /\ i <= Len(msgs[m].content)
        /\ msgs[m].content[i].kind \in {"ToolUse", "ToolResult"}}

\* The last of them: the first one met from the end of the conversation.
LastToolItem(msgs) ==
    CHOOSE p \in ToolItems(msgs) :
        \A q \in ToolItems(msgs) : q[1] < p[1] \/ (q[1] = p[1] /\ q[2] <= p[2])

\* The items the request must go without: the last tool item when it is a
\* tool use, none when it is a tool result or when there is no tool item.
Stripped(msgs) ==
    IF ToolItems(msgs) = {} THEN {}
    ELSE LET p == LastToolItem(msgs)
         IN IF msgs[p[1]].content[p[2]].kind = "ToolUse"
            THEN {msgs[p[1]].content[p[2]].id} ELSE {}

\* C19: the request sent to the editor model holds the messages of the
\* conversation in their order, each with its role and its items in their
\* order, without the first tool use met from the end unless a tool result is
\* met before it (at most one item is left out), followed by exactly one more
\* message: the user message of the edit prompt and the edit instructions.
C19_StripsTrailingToolUse ==
    request # None =>
        LET req == Unwrap(request)
        IN /\ Len(req) = Len(messages) + 1
           /\ Last(req) = EditMessage
           /\ Cardinality(Stripped(messages)) <= 1
           /\ \A m \in 1..Len(messages) :
                 /\ req[m].role = messages[m].role
                 /\ req[m].content =
                       SelectSeq(messages[m].content,
                                 LAMBDA item : item.id \notin Stripped(messages))

\* Witness of C19: the last message ends with a text after its tool use; the
\* tool use is left out of the request, the text and a tool use of the
\* message before are kept.
C19_Witness ==
    /\ request # None
    /\ Len(messages) = 2
    /\ Len(messages[2].content) = 2 /\ messages[2].content[2].kind = "Text"
    /\ Stripped(messages) = {messages[2].content[1].id}
    /\ \E i \in 1..Len(messages[1].content) : messages[1].content[i].kind = "ToolUse"
    /\ Len(Unwrap(request)[2].content) = 1

\* The length in bytes of a piece of the output: a header is its text, a
\* source is its text after the two line breaks written before it.
PieceLen(piece) ==
    IF piece.tag = "source" THEN Len("\n\n") + Len(piece.text) ELSE Len(piece.text)

\* The length in bytes of the output.
RECURSIVE OutputLen(_)
OutputLen(out) ==
    IF out = <<>> THEN 0 ELSE PieceLen(out[1]) + OutputLen(Tail(out))

\* The range 0..SUCCESS_OUTPUT_HEADER.len() lies within the output.
HeaderRangeInBounds(out) == Len(SUCCESS_OUTPUT_HEADER) <= OutputLen(out)

\* C20: the output of a request begins with the success header from its
\* creation on: it is created holding the header alone and every later
\* change appends one source to it. So it is never shorter than the header,
\* the range finalize replaces is within it, and the error text finalize
\* builds holds, after its own header, the appended sources as they were.
C20_OutputBeginsWithHeader ==
    /\ [](RequestLive =>
             /\ Len(output) >= 1
             /\ output[1] = Header(SUCCESS_OUTPUT_HEADER)
             /\ \A i \in 2..Len(output) : output[i].tag = "source"
             /\ HeaderRangeInBounds(output))
    /\ []((pc = "Failed" /\ result.kind = "errors") =>
             /\ Len(result.text) > Len(output)
             /\ result.text[1].tag = "header"
             /\ SubSeq(result.text, 2, Len(output)) = SubSeq(output, 2, Len(output)))
    /\ [][output' # output =>
             \/ pc = "Initiated" /\ output' = <<Header(SUCCESS_OUTPUT_HEADER)>>
             \/ pc = "MatchResult" /\ Len(output) >= 1
                /\ output' = Append(output, Source(Unwrap(action).source))]_vars

\* Witness of C20: finalize replaced the header of an output that held the
\* header and two sources; the sources are in the error text.
C20_Witness ==
    /\ pc = "Failed" /\ result.kind = "errors"
    /\ Len(output) = 3
    /\ OutputLen(output) > Len(SUCCESS_OUTPUT_HEADER)
    /\ result.text[1] # output[1]
    /\ result.text[2] = output[2] /\ result.text[3] = output[3]

====
